---- MODULE Spec2Model ----
(***************************************************************************)
(* The image-label codec of src/main.py: oneDim2rgbLabel (class index ->   *)
(* RGB) and rgb2oneDimLabel (RGB -> class index).                          *)
(*                                                                         *)
(* An array is a record [shape, px].  shape is the numpy shape tuple; px   *)
(* maps every position <<i, j, k>> of the first three axes (0-based, as in *)
(* the source) to the slice a[i, j, k, :] as a sequence.  An element of a  *)
(* rank-3 array is kept as a sequence of length 1.                         *)
(***************************************************************************)
EXTENDS Integers, Sequences, FiniteSets, TLC

VARIABLES
  pc,       \* "idle", "loop" (inside the encoder's loop nest), "returned", "raised"
  call,     \* the function called last: "none", "oneDim2rgbLabel", "rgb2oneDimLabel"
  fed,      \* TRUE when the encoder's argument is the decoder's return value
  mask,     \* the argument imgBin of oneDim2rgbLabel
  img,      \* the array img: the decoder's result, the encoder's argument
  imgBin,   \* the array imgBin allocated by rgb2oneDimLabel, its result
  pending,  \* iterations <<i, j, k>> of the encoder's loop nest not yet executed
  writers,  \* for each cell of imgBin, the iterations that have assigned it
  err,      \* the exception raised, "none" otherwise
  run,      \* number of the current call of the encoder on img (1 or 2)
  prev      \* the result of the first call, once a second one is made

vars == <<pc, call, fed, mask, img, imgBin, pending, writers, err, run, prev>>

\* Largest number of pixels (numImg * width * height) of an input array.
MaxCells == 4

----------------------------------------------------------------------------
\* The label tables

\* The class names in class-index order (the order of lblDict and of its
\* "# n" comments).
ClassNames ==
  <<
    "unlabeled", "paved-area", "dirt", "grass",
    "gravel", "water", "rocks", "pool",
    "vegetation", "roof", "wall", "window",
    "door", "fence", "fence-pole", "person",
    "dog", "car", "bicycle", "tree",
    "bald-tree", "ar-marker", "obstacle", "conflicting"
  >>

\* lblDict of oneDim2rgbLabel.
lblDict ==
  (
    "unlabeled" :> <<0, 0, 0>> @@
    "paved-area" :> <<128, 64, 128>> @@
    "dirt" :> <<0, 76, 130>> @@
    "grass" :> <<0, 102, 0>> @@
    "gravel" :> <<87, 103, 112>> @@
    "water" :> <<168, 42, 28>> @@
    "rocks" :> <<30, 41, 48>> @@
    "pool" :> <<89, 50, 0>> @@
    "vegetation" :> <<35, 142, 107>> @@
    "roof" :> <<70, 70, 70>> @@
    "wall" :> <<156, 102, 102>> @@
    "window" :> <<12, 228, 254>> @@
    "door" :> <<12, 148, 254>> @@
    "fence" :> <<153, 153, 190>> @@
    "fence-pole" :> <<153, 153, 153>> @@
    "person" :> <<96, 22, 255>> @@
    "dog" :> <<0, 51, 102>> @@
    "car" :> <<150, 143, 9>> @@
    "bicycle" :> <<32, 11, 119>> @@
    "tree" :> <<0, 51, 51>> @@
    "bald-tree" :> <<190, 250, 190>> @@
    "ar-marker" :> <<146, 150, 112>> @@
    "obstacle" :> <<115, 135, 2>> @@
    "conflicting" :> <<0, 0, 255>>
  )

\* The decoder's if/elif chain: the constant compared with imgBin[i, j, k]
\* and the key of lblDict assigned in that branch.
DecChain ==
  <<
    <<0, "unlabeled">>, <<1, "paved-area">>, <<2, "dirt">>,
    <<3, "grass">>, <<4, "gravel">>, <<5, "water">>,
    <<6, "rocks">>, <<7, "pool">>, <<8, "vegetation">>,
    <<9, "roof">>, <<10, "wall">>, <<11, "window">>,
    <<12, "door">>, <<13, "fence">>, <<14, "fence-pole">>,
    <<15, "person">>, <<16, "dog">>, <<17, "car">>,
    <<18, "bicycle">>, <<19, "tree">>, <<20, "bald-tree">>,
    <<21, "ar-marker">>, <<22, "obstacle">>, <<23, "conflicting">>
  >>

\* The encoder's chain with the colour of branch 12 typed as that of 11.
EncChainDup ==
  <<
    <<<<0, 0, 0>>, 0>>, <<<<128, 64, 128>>, 1>>, <<<<0, 76, 130>>, 2>>,
    <<<<0, 102, 0>>, 3>>, <<<<87, 103, 112>>, 4>>, <<<<168, 42, 28>>, 5>>,
    <<<<30, 41, 48>>, 6>>, <<<<89, 50, 0>>, 7>>, <<<<35, 142, 107>>, 8>>,
    <<<<70, 70, 70>>, 9>>, <<<<156, 102, 102>>, 10>>, <<<<12, 228, 254>>, 11>>,
    <<<<12, 228, 254>>, 12>>, <<<<153, 153, 190>>, 13>>, <<<<153, 153, 153>>, 14>>,
    <<<<96, 22, 255>>, 15>>, <<<<0, 51, 102>>, 16>>, <<<<150, 143, 9>>, 17>>,
    <<<<32, 11, 119>>, 18>>, <<<<0, 51, 51>>, 19>>, <<<<190, 250, 190>>, 20>>,
    <<<<146, 150, 112>>, 21>>, <<<<115, 135, 2>>, 22>>, <<<<0, 0, 255>>, 23>>
  >>

\* The encoder's if/elif chain: the colour compared with img[i, j, k, :]
\* and the index assigned in that branch.
EncChain ==
  <<
    <<<<0, 0, 0>>, 0>>, <<<<128, 64, 128>>, 1>>, <<<<0, 76, 130>>, 2>>,
    <<<<0, 102, 0>>, 3>>, <<<<87, 103, 112>>, 4>>, <<<<168, 42, 28>>, 5>>,
    <<<<30, 41, 48>>, 6>>, <<<<89, 50, 0>>, 7>>, <<<<35, 142, 107>>, 8>>,
    <<<<70, 70, 70>>, 9>>, <<<<156, 102, 102>>, 10>>, <<<<12, 228, 254>>, 11>>,
    <<<<12, 148, 254>>, 12>>, <<<<153, 153, 190>>, 13>>, <<<<153, 153, 153>>, 14>>,
    <<<<96, 22, 255>>, 15>>, <<<<0, 51, 102>>, 16>>, <<<<150, 143, 9>>, 17>>,
    <<<<32, 11, 119>>, 18>>, <<<<0, 51, 51>>, 19>>, <<<<190, 250, 190>>, 20>>,
    <<<<146, 150, 112>>, 21>>, <<<<115, 135, 2>>, 22>>, <<<<0, 0, 255>>, 23>>
  >>

\* The colour the decoder's table gives class index i (0..23).
colorOf(i) == lblDict[ClassNames[i + 1]]

ClassIndices == 0 .. (Len(ClassNames) - 1)

\* np.array_equal(a, b): same shape and same elements.
array_equal(a, b) ==
  /\ Len(a) = Len(b)
  /\ \A n \in 1 .. Len(a) : a[n] = b[n]

Least(S) == CHOOSE x \in S : \A y \in S : x <= y

\* The decoder's chain without its last branch.
DecodePixelNo23(v) ==
  LET hits == {n \in 1 .. (Len(DecChain) - 1) : DecChain[n][1] = v}
  IN  IF hits = {} THEN <<0, 0, 0>> ELSE lblDict[DecChain[Least(hits)][2]]

\* One pass of the decoder's if/elif chain on the value v of a mask pixel:
\* the colour of the first branch whose constant equals v; when no branch
\* is taken the pixel keeps the zeros of np.zeros.
DecodePixel(v) ==
  LET hits == {n \in 1 .. Len(DecChain) : DecChain[n][1] = v}
  IN  IF hits = {} THEN <<0, 0, 0>> ELSE lblDict[DecChain[Least(hits)][2]]

\* The value no branch of the encoder's chain assigns.
NoMatch == -1

\* One pass of the encoder's if/elif chain on the slice p = img[i, j, k, :]:
\* the index assigned by the first branch whose colour array_equal accepts.
EncodePixel(p) ==
  LET hits == {n \in 1 .. Len(EncChain) : array_equal(p, EncChain[n][1])}
  IN  IF hits = {} THEN NoMatch ELSE EncChain[Least(hits)][2]

----------------------------------------------------------------------------
\* Arrays

NoArray == [shape |-> <<>>, px |-> <<>>]

Cells(s) ==
  {<<i, j, k>> : i \in 0 .. (s[1] - 1), j \in 0 .. (s[2] - 1), k \in 0 .. (s[3] - 1)}

NCells(s) == s[1] * s[2] * s[3]

\* np.zeros(shape) for a rank-4 shape.
zeros(s) == [shape |-> s, px |-> [c \in Cells(s) |-> [n \in 1 .. s[4] |-> 0]]]

\* The cells of imgBin that the assignment imgBin[i, j] = value of iteration
\* c = <<i, j, k>> touches when only the pixel of the iteration is indexed.
WriteSetPixel(c, s) == {d \in Cells(s) : d = c}

\* The cells of imgBin that the assignment imgBin[i, j] = value of iteration
\* c = <<i, j, k>> touches: the index has two components, so every column of
\* row (i, j) is assigned.
WriteSet(c, s) == {d \in Cells(s) : d[1] = c[1] /\ d[2] = c[2]}

----------------------------------------------------------------------------
\* Inputs

Shapes3 ==
  {s \in (1 .. MaxCells) \X (1 .. MaxCells) \X (1 .. MaxCells) : NCells(s) <= MaxCells}

\* Class indices named by the documented scenarios, and 24 (out of range).
SampleVals == {0, 1, 2, 3, 23, 24}

IndexVals(n) == IF n = 1 THEN (-1) .. 24 ELSE SampleVals

Arrays(s, tail, elems) ==
  {[shape |-> s \o tail, px |-> f] : f \in [Cells(s) -> elems]}

\* Arguments of oneDim2rgbLabel: (numImg, width, height, 1) masks, rank-3
\* masks and masks with a trailing axis of length 2.
DecInputs ==
  UNION {   Arrays(s, <<1>>, {<<v>> : v \in IndexVals(NCells(s))})
         \cup Arrays(s, <<>>, {<<0>>, <<23>>})
         \cup Arrays(s, <<2>>, {<<0, 0>>, <<1, 1>>})
         : s \in Shapes3}

Registered == {colorOf(i) : i \in ClassIndices}

SampleColors == {colorOf(0), colorOf(1), colorOf(23), <<0, 0, 1>>}

ColorVals(n) ==
  IF n = 1 THEN Registered \cup {<<0, 0, 1>>, <<255, 255, 255>>} ELSE SampleColors

\* Arguments of rgb2oneDimLabel given directly: (numImg, width, height, 3)
\* colour arrays, arrays with a trailing axis of length 2 or 4, rank-3 arrays.
EncInputs ==
  UNION {   Arrays(s, <<3>>, ColorVals(NCells(s)))
         \cup Arrays(s, <<2>>, {<<0, 0>>, <<128, 64>>})
         \cup Arrays(s, <<4>>, {<<0, 0, 0, 0>>})
         \cup Arrays(s, <<>>, {<<0>>})
         : s \in Shapes3}

----------------------------------------------------------------------------
\* Operations

Init ==
  /\ pc = "idle"
  /\ call = "none"
  /\ fed = FALSE
  /\ mask = NoArray
  /\ img = NoArray
  /\ imgBin = NoArray
  /\ pending = {}
  /\ writers = <<>>
  /\ err = "none"
  /\ run = 0
  /\ prev = NoArray

\* oneDim2rgbLabel(a): the two shape checks, then the loop nest over every
\* pixel, which no other code runs beside.
CallDecoder(a) ==
  /\ pc = "idle"
  /\ call' = "oneDim2rgbLabel"
  /\ mask' = a
  /\ IF Len(a.shape) # 4
       THEN /\ pc' = "raised"
            /\ err' = "TypeError"
            /\ img' = img
       ELSE IF a.shape[4] # 1
         THEN /\ pc' = "raised"
              /\ err' = "ValueError"
              /\ img' = img
         ELSE /\ pc' = "returned"
              /\ err' = err
              /\ img' = [shape |-> <<a.shape[1], a.shape[2], a.shape[3], 3>>,
                         px |-> [c \in Cells(a.shape) |-> DecodePixel(a.px[c][1])]]
  /\ UNCHANGED <<fed, imgBin, pending, writers, run, prev>>

\* Entry of rgb2oneDimLabel on the array img: imgBin = np.zeros(...), no
\* iteration executed yet.
EncEntry ==
  /\ call' = "rgb2oneDimLabel"
  /\ pc' = "loop"
  /\ imgBin' = zeros(<<img'.shape[1], img'.shape[2], img'.shape[3], 1>>)
  /\ pending' = Cells(img'.shape)
  /\ writers' = [c \in Cells(img'.shape) |-> {}]
  /\ err' = "none"

\* rgb2oneDimLabel(a) on an array given by the caller.
CallEncoder(a) ==
  /\ pc = "idle"
  /\ img' = a
  /\ fed' = FALSE
  /\ run' = 1
  /\ EncEntry
  /\ UNCHANGED <<mask, prev>>

\* rgb2oneDimLabel(oneDim2rgbLabel(mask)): the decoder's result is passed on.
FeedEncoder ==
  /\ pc = "returned"
  /\ call = "oneDim2rgbLabel"
  /\ img' = img
  /\ fed' = TRUE
  /\ run' = 1
  /\ EncEntry
  /\ UNCHANGED <<mask, prev>>

\* The body of the loop nest for iteration c = <<i, j, k>>: the if/elif chain
\* on img[i, j, k, :] and, in the branch taken, imgBin[i, j] = index.
\* Indexing a rank-3 array with four indices raises.
EncIter(c) ==
  /\ pc = "loop"
  /\ c \in pending
  /\ IF Len(img.shape) # 4
       THEN /\ pc' = "raised"
            /\ err' = "IndexError"
            /\ UNCHANGED <<imgBin, pending, writers>>
       ELSE LET v == EncodePixel(img.px[c])
                W == IF v = NoMatch THEN {} ELSE WriteSet(c, imgBin.shape)
            IN  /\ imgBin' = [imgBin EXCEPT !.px =
                                [d \in DOMAIN imgBin.px |->
                                   IF d \in W THEN <<v>> ELSE imgBin.px[d]]]
                /\ writers' = [d \in DOMAIN writers |->
                                 IF d \in W THEN writers[d] \cup {c} ELSE writers[d]]
                /\ pending' = pending \ {c}
                /\ UNCHANGED <<pc, err>>
  /\ UNCHANGED <<call, fed, mask, img, run, prev>>

\* <<j, k>> of c comes before <<j, k>> of d in the order of the inner loops.
InnerBefore(c, d) == c[2] < d[2] \/ (c[2] = d[2] /\ c[3] < d[3])

\* Iteration c is the next one of its image: numba runs only the outermost
\* prange in parallel and the prange loops nested in it as plain range loops,
\* so images proceed side by side, each in ascending <<j, k>>.
EncIterSerial(c) ==
  /\ \A d \in pending : d[1] = c[1] => ~InnerBefore(d, c)
  /\ EncIter(c)

\* Every iteration of the three prange loops is an independent unit of work.
EncIterPar(c) == EncIter(c)

\* All iterations are done: print("Images converted"); return imgBin.
EncReturn ==
  /\ pc = "loop"
  /\ pending = {}
  /\ pc' = "returned"
  /\ UNCHANGED <<call, fed, mask, img, imgBin, pending, writers, err, run, prev>>

\* A second call of rgb2oneDimLabel on the same array, the first result kept.
Rerun ==
  /\ pc = "returned"
  /\ call = "rgb2oneDimLabel"
  /\ run = 1
  /\ prev' = imgBin
  /\ run' = 2
  /\ img' = img
  /\ EncEntry
  /\ UNCHANGED <<fed, mask>>

Next ==
  \/ pc = "idle" /\ \E a \in DecInputs : CallDecoder(a)
  \/ FeedEncoder
  \/ pc = "idle" /\ \E a \in EncInputs : CallEncoder(a)
  \/ \E c \in pending : EncIterSerial(c)
  \/ EncReturn

Spec == Init /\ [][Next]_vars

NextPar ==
  \/ pc = "idle" /\ \E a \in EncInputs : CallEncoder(a)
  \/ \E c \in pending : EncIterPar(c)
  \/ EncReturn
  \/ Rerun

SpecPar == Init /\ [][NextPar]_vars

----------------------------------------------------------------------------
\* Vocabulary of the properties

\* The shape oneDim2rgbLabel accepts: (numImg, width, height, 1).
ValidMask(a) == Len(a.shape) = 4 /\ a.shape[4] = 1

\* The shape of a colour mask: (numImg, width, height, 3).
ValidColor(a) == Len(a.shape) = 4 /\ a.shape[4] = 3

\* Every value of the mask is a class index.
InRange(a) == \A c \in DOMAIN a.px : a.px[c][1] \in ClassIndices

\* The class of a registered colour: the first index, in ascending order,
\* whose colour in the decoder's table is p.
ClassIndexOf(p) == Least({i \in ClassIndices : colorOf(i) = p})

Greatest(S) == CHOOSE x \in S : \A y \in S : y <= x

DecReturned == call = "oneDim2rgbLabel" /\ pc = "returned"

EncReturned == call = "rgb2oneDimLabel" /\ pc = "returned"

\* The mask [[[0,1],[2,3]]] as one image of two rows and two columns.
ScenarioMask ==
  [shape |-> <<1, 2, 2, 1>>,
   px |-> [c \in Cells(<<1, 2, 2>>) |-> <<2 * c[2] + c[3]>>]]

ScenarioColors ==
  [c \in Cells(<<1, 2, 2>>) |->
     IF c = <<0, 0, 0>> THEN <<0, 0, 0>>
     ELSE IF c = <<0, 0, 1>> THEN <<128, 64, 128>>
     ELSE IF c = <<0, 1, 0>> THEN <<0, 76, 130>>
     ELSE <<0, 102, 0>>]

----------------------------------------------------------------------------
\* C1: round trip.  When the encoder returns on the decoder's result for a
\* mask whose values all lie in 0..23, its output holds at every pixel
\* position the value of the mask at that position.
C1_RoundTrip ==
  (EncReturned /\ fed /\ InRange(mask))
    => \A c \in Cells(mask.shape) : imgBin.px[c][1] = mask.px[c][1]

\* C2: decoder pixel lookup.  When oneDim2rgbLabel returns on a mask with
\* values in 0..23, every output pixel holds the registered colour of the
\* class index at the same position of the mask; the mask [[[0,1],[2,3]]]
\* gives the four documented colours, an all-0 mask gives (0,0,0) everywhere
\* and an all-23 mask gives (0,0,255) everywhere.
C2_DecoderLookup ==
  (DecReturned /\ InRange(mask))
    => /\ img.shape = <<mask.shape[1], mask.shape[2], mask.shape[3], 3>>
       /\ DOMAIN img.px = Cells(mask.shape)
       /\ \A c \in Cells(mask.shape) : img.px[c] = colorOf(mask.px[c][1])
       /\ mask = ScenarioMask => img.px = ScenarioColors
       /\ (\A c \in Cells(mask.shape) : mask.px[c] = <<0>>)
            => \A c \in Cells(mask.shape) : img.px[c] = <<0, 0, 0>>
       /\ (\A c \in Cells(mask.shape) : mask.px[c] = <<23>>)
            => \A c \in Cells(mask.shape) : img.px[c] = <<0, 0, 255>>

C2_Witness ==
  /\ DecReturned
  /\ mask = ScenarioMask
  /\ img.px = ScenarioColors

\* C3: encoder pixel classification.  When rgb2oneDimLabel returns on a
\* colour mask whose pixels are all registered colours, the value at every
\* position is the class index of the first registered colour equal to the
\* input triplet at that same position.
C3_EncoderPerPixel ==
  (EncReturned /\ ValidColor(img) /\ \A c \in Cells(img.shape) : img.px[c] \in Registered)
    => \A c \in Cells(img.shape) : imgBin.px[c] = <<ClassIndexOf(img.px[c])>>

\* C4: decoder range error.  A call of oneDim2rgbLabel on a mask of the
\* accepted shape that holds a value outside 0..23 raises and returns no
\* colour mask.
C4_DecoderRangeError ==
  (call = "oneDim2rgbLabel" /\ ValidMask(mask) /\ ~InRange(mask))
    => pc = "raised"

\* C5: disjoint writes.  No cell of the encoder's output is assigned by two
\* different iterations of the loop nest.
C5_DisjointWrites ==
  \A d \in DOMAIN writers : Cardinality(writers[d]) <= 1

\* C6: unregistered colour gives 0.  When rgb2oneDimLabel returns on a
\* colour mask, every position whose input triplet is not a registered
\* colour holds 0 in the output.
C6_UnregisteredIsZero ==
  (EncReturned /\ ValidColor(img))
    => \A c \in Cells(img.shape) :
         img.px[c] \notin Registered => imgBin.px[c] = <<0>>

\* C7: eager shape validation.  A call of either function on an array that
\* has not the required rank or trailing dimension raises before any output
\* pixel is computed and never returns.
C7_ShapeValidation ==
  /\ (call = "oneDim2rgbLabel" /\ ~ValidMask(mask))
       => (pc = "raised" /\ err \in {"TypeError", "ValueError"})
  /\ (call = "rgb2oneDimLabel" /\ ~ValidColor(img))
       => (pc # "returned" /\ pending = Cells(img.shape))

\* C8: label bijection across both tables.  The 24 colours of the decoder's
\* table are pairwise distinct; the encoder's chain maps the colour the
\* decoder wrote for a class index back to that index; and the decoder's
\* chain maps the index the encoder's chain gives a registered colour back
\* to that colour.
C8_TableBijection ==
  /\ \A i, j \in ClassIndices : i # j => colorOf(i) # colorOf(j)
  /\ DecReturned
       => \A c \in Cells(mask.shape) :
            mask.px[c][1] \in ClassIndices => EncodePixel(img.px[c]) = mask.px[c][1]
  /\ (call = "rgb2oneDimLabel" /\ ~fed /\ ValidColor(img))
       => \A c \in Cells(img.shape) :
            img.px[c] \in Registered => DecodePixel(EncodePixel(img.px[c])) = img.px[c]

C8_Witness ==
  /\ DecReturned
  /\ mask.shape = <<1, 1, 1, 1>>
  /\ mask.px[<<0, 0, 0>>] = <<12>>
  /\ EncodePixel(img.px[<<0, 0, 0>>]) = 12

LastRegistered(a, i, j) ==
  LET ks == {k \in 0 .. (a.shape[3] - 1) : a.px[<<i, j, k>>] \in Registered}
  IN  IF ks = {} THEN NoMatch ELSE Greatest(ks)

\* C10: row-wide write.  With the columns of every row processed in
\* ascending order, on return every cell of output row (i, j) holds the
\* class index of the highest column of that row whose input triplet is a
\* registered colour, or 0 when the row has no registered colour.
C10_RowWideWrite ==
  (EncReturned /\ Len(img.shape) = 4)
    => \A c \in Cells(img.shape) :
         LET k == LastRegistered(img, c[1], c[2])
         IN  imgBin.px[c] =
               IF k = NoMatch THEN <<0>>
               ELSE <<ClassIndexOf(img.px[<<c[1], c[2], k>>])>>

C10_Witness ==
  /\ EncReturned
  /\ ValidColor(img)
  /\ \E c, d \in Cells(img.shape) :
       /\ c[1] = d[1] /\ c[2] = d[2] /\ c[3] < d[3]
       /\ img.px[c] = colorOf(23)
       /\ img.px[d] = colorOf(1)
       /\ imgBin.px[c] = <<1>>
       /\ imgBin.px[d] = <<1>>

====
